---- MODULE Spec2Model ----
(***************************************************************************)
(* The Braintree client gateways of transaction_gateway.go: the per-call   *)
(* status dispatch of TransactionGateway and CreditCardGateway and the     *)
(* page-offset arithmetic of Search / SearchNext / ExpiringBetweenPage.    *)
(*                                                                         *)
(* The library keeps no state of its own.  The state below is what a       *)
(* caller holds between calls (the result objects it was handed, its       *)
(* SearchQuery) and a record of the last call: the requests it issued, the *)
(* responses it got, what it returned and the slice it took.               *)
(*                                                                         *)
(* Pointers are modelled as sequences of length 0 (nil) or 1, results of   *)
(* Search / SearchNext as indices into the heap `results` (0 is nil).      *)
(* Go's int is 64 bits wide; the bounds below keep every product far from  *)
(* that width, so plain integers are used.                                 *)
(***************************************************************************)
EXTENDS Integers, Sequences, FiniteSets, TLC

VARIABLES remoteIDs, remotePageSize, query, results, origin, ccSearch, last

vars == <<remoteIDs, remotePageSize, query, results, origin, ccSearch, last>>

\* ---------------------------------------------------------------- bounds
MaxIDs == 3
MaxPageSize == 2
MaxPage == 3
MaxResults == 3
MaxAmounts == 2
MaxSearches == 1

TxIDs == {"t1", "t2"}
Decimals == {"1.00", "2.50"}
StatusCodes == {200, 201, 500}

\* ------------------------------------------------------- values and helpers
NoErr == [kind |-> "nil"]
TransportErr == [kind |-> "transport"]
XmlErr == [kind |-> "xml"]
invalidResponseError(resp) == [kind |-> "invalidResponse", resp |-> resp]

NilBody == [type |-> "nil"]

\* g.execute: either an error, or a response with a status code and a body
\* that the XML decoder accepts or rejects.
ExecOutcomes ==
    {[err |-> TRUE, StatusCode |-> 0, parses |-> FALSE]}
        \cup {[err |-> FALSE, StatusCode |-> s, parses |-> p] :
                 s \in StatusCodes, p \in BOOLEAN}

Request(method, path, body) == [method |-> method, path |-> path, body |-> body]

Exec(req, out, parsed) == [req |-> req, out |-> out, parsed |-> parsed]

\* s[lo:hi] of Go; legal only when 0 <= lo <= hi <= len(s)
InRange(s, lo, hi) == 0 <= lo /\ lo <= hi /\ hi <= Len(s)

Slice(s, lo, hi) == SubSeq(s, lo + 1, hi)

\* SearchQuery.shallowCopy and AddMultiField: a fresh query object with the
\* same fields, to which the multi-field is appended.
shallowCopy(q) == [type |-> "SearchQuery", Fields |-> q.Fields]

AddMultiField(q, name, items) ==
    [q EXCEPT !.Fields = Append(@, [name |-> name, Items |-> items])]

\* the record of a call
Call(op, args, execs, val, res, err, slice, panic) ==
    [op |-> op, args |-> args, execs |-> execs, val |-> val, res |-> res,
     err |-> err, slice |-> slice, panic |-> panic]

NoArgs == [id |-> "", amount |-> <<>>, input |-> 0, page |-> 0]

\* --------------------------------------------------- transaction search
\* fetchTransactionIDs: POST transactions/advanced_search_ids, then decode.
fetchTransactionIDs(q, out) ==
    LET req == Request("POST", <<"transactions", "advanced_search_ids">>, q) IN
    IF out.err
    THEN [execs |-> <<Exec(req, out, FALSE)>>, v |-> <<>>, err |-> TransportErr]
    ELSE IF ~out.parses
    THEN [execs |-> <<Exec(req, out, TRUE)>>, v |-> <<>>, err |-> XmlErr]
    ELSE [execs |-> <<Exec(req, out, TRUE)>>,
          v |-> <<[PageSize |-> remotePageSize, IDs |-> remoteIDs]>>,
          err |-> NoErr]

fetchTransactionsRetry(q, out) ==
    LET req == Request("POST", <<"transactions", "advanced_search">>, q) IN
    IF out.err
    THEN [execs |-> <<Exec(req, out, FALSE), Exec(req, out, FALSE)>>,
          Transactions |-> <<>>, err |-> TransportErr]
    ELSE IF ~out.parses
    THEN [execs |-> <<Exec(req, out, TRUE)>>, Transactions |-> <<>>, err |-> XmlErr]
    ELSE [execs |-> <<Exec(req, out, TRUE)>>,
          Transactions |-> q.Fields[Len(q.Fields)].Items, err |-> NoErr]

\* fetchTransactions: POST transactions/advanced_search, then decode.  The
\* decoded transactions are stood for by the IDs the request asked for.
fetchTransactions(q, out) ==
    LET req == Request("POST", <<"transactions", "advanced_search">>, q) IN
    IF out.err
    THEN [execs |-> <<Exec(req, out, FALSE)>>, Transactions |-> <<>>, err |-> TransportErr]
    ELSE IF ~out.parses
    THEN [execs |-> <<Exec(req, out, TRUE)>>, Transactions |-> <<>>, err |-> XmlErr]
    ELSE [execs |-> <<Exec(req, out, TRUE)>>,
          Transactions |-> q.Fields[Len(q.Fields)].Items, err |-> NoErr]

ClampEndNone(endOffset, n) == endOffset

\* if endOffset > len(ids) { endOffset = len(ids) }
ClampEnd(endOffset, n) == IF endOffset > n THEN n ELSE endOffset

PageDoneStrict(startOffset, endOffset) == startOffset > endOffset

\* if startOffset >= endOffset { return nil, nil }
PageDone(startOffset, endOffset) == startOffset >= endOffset

FirstPageResult(pageSize, ids, txs, q) ==
    [TotalItems |-> Len(ids), TotalIDs |-> ids, CurrentPageNumber |-> 1,
     PageSize |-> pageSize, Transactions |-> txs, searchQuery |-> q]

SearchNextStartSame(result) == (result.CurrentPageNumber - 1) * result.PageSize

\* startOffset := result.CurrentPageNumber * result.PageSize
SearchNextStart(result) == result.CurrentPageNumber * result.PageSize

NextPageResultSamePage(result, txs) ==
    [TotalItems |-> result.TotalItems, TotalIDs |-> result.TotalIDs,
     CurrentPageNumber |-> result.CurrentPageNumber,
     PageSize |-> result.PageSize, Transactions |-> txs,
     searchQuery |-> result.searchQuery]

NextPageResult(result, txs) ==
    [TotalItems |-> result.TotalItems, TotalIDs |-> result.TotalIDs,
     CurrentPageNumber |-> result.CurrentPageNumber + 1,
     PageSize |-> result.PageSize, Transactions |-> txs,
     searchQuery |-> result.searchQuery]

\* the Items of the "ids" multi-field of a page query
RequestedIDs(q) == q.Fields[Len(q.Fields)].Items

\* what is remembered of how a result came about: the result it was derived
\* from (0 for Search) as it was when the call was made, the IDs the page
\* request asked for, and whether the page fetch succeeded
Origin(parent, input, ids, ok) ==
    [parent |-> parent, input |-> input, ids |-> ids, ok |-> ok]

\* the results the caller got from Search itself
Searches == {i \in 1..Len(results) : origin[i].parent = 0}

Search ==
    /\ ~last.panic
    /\ Len(results) < MaxResults
    /\ Cardinality(Searches) < MaxSearches
    /\ \E o1 \in ExecOutcomes :
        LET searchResult == fetchTransactionIDs(query, o1) IN
        IF searchResult.err.kind # "nil"
        THEN /\ last' = Call("Search", NoArgs, searchResult.execs, <<>>, 0,
                             searchResult.err, <<>>, FALSE)
             /\ UNCHANGED <<results, origin>>
        ELSE
        LET pageSize == searchResult.v[1].PageSize
            ids == searchResult.v[1].IDs
            endOffset == ClampEnd(pageSize, Len(ids))
            slice == <<[lo |-> 0, hi |-> endOffset, len |-> Len(ids)]>>
        IN
        IF ~InRange(ids, 0, endOffset)
        THEN /\ last' = Call("Search", NoArgs, searchResult.execs, <<>>, 0,
                             NoErr, slice, TRUE)
             /\ UNCHANGED <<results, origin>>
        ELSE
        \E o2 \in ExecOutcomes :
        LET firstPageQuery ==
                AddMultiField(shallowCopy(query), "ids", Slice(ids, 0, endOffset))
            page == fetchTransactions(firstPageQuery, o2)
            firstPageResult == FirstPageResult(pageSize, ids, page.Transactions, query)
        IN
        /\ results' = Append(results, firstPageResult)
        /\ origin' = Append(origin, Origin(0, <<>>, RequestedIDs(firstPageQuery),
                                           page.err.kind = "nil"))
        /\ last' = Call("Search", NoArgs, searchResult.execs \o page.execs,
                        <<firstPageResult>>, Len(results) + 1, page.err, slice, FALSE)
    /\ UNCHANGED <<remoteIDs, remotePageSize, query, ccSearch>>

SearchNext ==
    /\ ~last.panic
    /\ \E i \in 1..Len(results) :
        LET result == results[i]
            args == [NoArgs EXCEPT !.input = i]
            startOffset == SearchNextStart(result)
            endOffset == ClampEnd(startOffset + result.PageSize, Len(result.TotalIDs))
            slice == <<[lo |-> startOffset, hi |-> endOffset,
                        len |-> Len(result.TotalIDs)]>>
        IN
        IF PageDone(startOffset, endOffset)
        THEN /\ last' = Call("SearchNext", args, <<>>, <<>>, 0, NoErr, <<>>, FALSE)
             /\ UNCHANGED <<results, origin>>
        ELSE IF ~InRange(result.TotalIDs, startOffset, endOffset)
        THEN /\ last' = Call("SearchNext", args, <<>>, <<>>, 0, NoErr, slice, TRUE)
             /\ UNCHANGED <<results, origin>>
        ELSE
        \E o \in ExecOutcomes :
        LET nextPageQuery ==
                AddMultiField(shallowCopy(result.searchQuery), "ids",
                              Slice(result.TotalIDs, startOffset, endOffset))
            page == fetchTransactions(nextPageQuery, o)
            nextPageResult == NextPageResult(result, page.Transactions)
        IN
        /\ Len(results) < MaxResults
        /\ results' = Append(results, nextPageResult)
        /\ origin' = Append(origin, Origin(i, <<result>>, RequestedIDs(nextPageQuery),
                                           page.err.kind = "nil"))
        /\ last' = Call("SearchNext", args, page.execs, <<nextPageResult>>,
                        Len(results) + 1, page.err, slice, FALSE)
    /\ UNCHANGED <<remoteIDs, remotePageSize, query, ccSearch>>

\* ------------------------------------------------------ credit card paging
\* ExpiringBetweenIDs: POST /payment_methods/all/expiring_ids, then decode;
\* the status code is not looked at.
ExpiringBetweenIDs ==
    /\ ~last.panic
    /\ \E out \in ExecOutcomes :
        LET req == Request("POST", <<"payment_methods", "all", "expiring_ids">>, NilBody)
            searchResult == [PageSize |-> remotePageSize, IDs |-> remoteIDs]
        IN
        IF out.err
        THEN /\ last' = Call("ExpiringBetweenIDs", NoArgs, <<Exec(req, out, FALSE)>>,
                             <<>>, 0, TransportErr, <<>>, FALSE)
             /\ UNCHANGED ccSearch
        ELSE IF ~out.parses
        THEN /\ last' = Call("ExpiringBetweenIDs", NoArgs, <<Exec(req, out, TRUE)>>,
                             <<>>, 0, XmlErr, <<>>, FALSE)
             /\ UNCHANGED ccSearch
        ELSE /\ last' = Call("ExpiringBetweenIDs", NoArgs, <<Exec(req, out, TRUE)>>,
                             <<searchResult>>, 0, NoErr, <<>>, FALSE)
             /\ ccSearch' = <<searchResult>>
    /\ UNCHANGED <<remoteIDs, remotePageSize, query, results, origin>>

\* fetchExpiringBetween: POST /payment_methods/all/expiring, then decode.
fetchExpiringBetween(q, out) ==
    LET req == Request("POST", <<"payment_methods", "all", "expiring">>, q) IN
    IF out.err
    THEN [execs |-> <<Exec(req, out, FALSE)>>, CreditCards |-> <<>>, err |-> TransportErr]
    ELSE IF ~out.parses
    THEN [execs |-> <<Exec(req, out, TRUE)>>, CreditCards |-> <<>>, err |-> XmlErr]
    ELSE [execs |-> <<Exec(req, out, TRUE)>>,
          CreditCards |-> q.Fields[Len(q.Fields)].Items, err |-> NoErr]

PageStartOffByOne(page, pageSize) == page * pageSize

\* startOffset := (page - 1) * searchResult.PageSize
PageStart(page, pageSize) == (page - 1) * pageSize

CreditCardSearchResult(searchResult, page, cards) ==
    [TotalItems |-> Len(searchResult.IDs), TotalIDs |-> searchResult.IDs,
     CurrentPageNumber |-> page, PageSize |-> searchResult.PageSize,
     CreditCards |-> cards]

ExpiringBetweenPage ==
    /\ ~last.panic
    /\ ccSearch # <<>>
    /\ \E page \in 0..MaxPage :
        LET searchResult == ccSearch[1]
            args == [NoArgs EXCEPT !.page = page]
            startOffset == PageStart(page, searchResult.PageSize)
            endOffset == ClampEnd(startOffset + searchResult.PageSize,
                                  Len(searchResult.IDs))
            slice == <<[lo |-> startOffset, hi |-> endOffset,
                        len |-> Len(searchResult.IDs)]>>
        IN
        IF PageDone(startOffset, endOffset)
        THEN last' = Call("ExpiringBetweenPage", args, <<>>, <<>>, 0, NoErr, <<>>, FALSE)
        ELSE IF ~InRange(searchResult.IDs, startOffset, endOffset)
        THEN last' = Call("ExpiringBetweenPage", args, <<>>, <<>>, 0, NoErr, slice, TRUE)
        ELSE
        \E out \in ExecOutcomes :
        LET q == AddMultiField([type |-> "SearchQuery", Fields |-> <<>>], "ids",
                               Slice(searchResult.IDs, startOffset, endOffset))
            cards == fetchExpiringBetween(q, out)
            result == CreditCardSearchResult(searchResult, page, cards.CreditCards)
        IN
        last' = Call("ExpiringBetweenPage", args, cards.execs, <<result>>, 0,
                     cards.err, slice, FALSE)
    /\ UNCHANGED <<remoteIDs, remotePageSize, query, results, origin, ccSearch>>

\* ------------------------------------------------- single-request operations
\* Response.transaction / Response.creditCard: decode the body.
decode(out, type) ==
    IF out.parses THEN [val |-> <<[type |-> type]>>, err |-> NoErr]
    ELSE [val |-> <<>>, err |-> XmlErr]

\* if err != nil { return nil, err }
\* switch resp.StatusCode { case <ok>: return resp.transaction() }
\* return nil, &invalidResponseError{resp}
Respond(op, args, req, out, ok, type) ==
    IF out.err
    THEN Call(op, args, <<Exec(req, out, FALSE)>>, <<>>, 0, TransportErr, <<>>, FALSE)
    ELSE IF out.StatusCode \in ok
    THEN Call(op, args, <<Exec(req, out, TRUE)>>, decode(out, type).val, 0,
              decode(out, type).err, <<>>, FALSE)
    ELSE Call(op, args, <<Exec(req, out, FALSE)>>, <<>>, 0,
              invalidResponseError(out), <<>>, FALSE)

TransactionRequest(amount, other) ==
    [type |-> "TransactionRequest", Amount |-> amount, Other |-> other]

Frame == UNCHANGED <<remoteIDs, remotePageSize, query, results, origin, ccSearch>>

Create ==
    /\ ~last.panic
    /\ \E out \in ExecOutcomes, a \in Decimals :
        last' = Respond("Create", NoArgs,
                        Request("POST", <<"transactions">>, TransactionRequest(<<a>>, "set")),
                        out, {201}, "Transaction")
    /\ Frame

Clone ==
    /\ ~last.panic
    /\ \E out \in ExecOutcomes, id \in TxIDs :
        last' = Respond("Clone", [NoArgs EXCEPT !.id = id],
                        Request("POST", <<"transactions", id, "clone">>,
                                [type |-> "TransactionCloneRequest"]),
                        out, {201}, "Transaction")
    /\ Frame

AmountsUpTo(n) == UNION {[1..k -> Decimals] : k \in 0..n}

AmountBodyLast(amount) ==
    IF Len(amount) > 0 THEN TransactionRequest(<<amount[Len(amount)]>>, "") ELSE NilBody

\* var tx *TransactionRequest
\* if len(amount) > 0 { tx = &TransactionRequest{Amount: amount[0]} }
AmountBody(amount) ==
    IF Len(amount) > 0 THEN TransactionRequest(<<amount[1]>>, "") ELSE NilBody

SubmitForSettlement ==
    /\ ~last.panic
    /\ \E out \in ExecOutcomes, id \in TxIDs, amount \in AmountsUpTo(MaxAmounts) :
        last' = Respond("SubmitForSettlement", [NoArgs EXCEPT !.id = id, !.amount = amount],
                        Request("PUT", <<"transactions", id, "submit_for_settlement">>,
                                AmountBody(amount)),
                        out, {200}, "Transaction")
    /\ Frame

Void ==
    /\ ~last.panic
    /\ \E out \in ExecOutcomes, id \in TxIDs :
        last' = Respond("Void", [NoArgs EXCEPT !.id = id],
                        Request("PUT", <<"transactions", id, "void">>, NilBody),
                        out, {200}, "Transaction")
    /\ Frame

CancelRelease ==
    /\ ~last.panic
    /\ \E out \in ExecOutcomes, id \in TxIDs :
        last' = Respond("CancelRelease", [NoArgs EXCEPT !.id = id],
                        Request("PUT", <<"transactions", id, "cancel_release">>, NilBody),
                        out, {200}, "Transaction")
    /\ Frame

ReleaseFromEscrow ==
    /\ ~last.panic
    /\ \E out \in ExecOutcomes, id \in TxIDs :
        last' = Respond("ReleaseFromEscrow", [NoArgs EXCEPT !.id = id],
                        Request("PUT", <<"transactions", id, "release_from_escrow">>, NilBody),
                        out, {200}, "Transaction")
    /\ Frame

HoldInEscrow ==
    /\ ~last.panic
    /\ \E out \in ExecOutcomes, id \in TxIDs :
        last' = Respond("HoldInEscrow", [NoArgs EXCEPT !.id = id],
                        Request("PUT", <<"transactions", id, "hold_in_escrow">>, NilBody),
                        out, {200}, "Transaction")
    /\ Frame

Refund ==
    /\ ~last.panic
    /\ \E out \in ExecOutcomes, id \in TxIDs, amount \in AmountsUpTo(MaxAmounts) :
        last' = Respond("Refund", [NoArgs EXCEPT !.id = id, !.amount = amount],
                        Request("POST", <<"transactions", id, "refund">>,
                                AmountBody(amount)),
                        out, {200, 201}, "Transaction")
    /\ Frame

Find ==
    /\ ~last.panic
    /\ \E out \in ExecOutcomes, id \in TxIDs :
        last' = Respond("Find", [NoArgs EXCEPT !.id = id],
                        Request("GET", <<"transactions", id>>, NilBody),
                        out, {200}, "Transaction")
    /\ Frame

CardCreate ==
    /\ ~last.panic
    /\ \E out \in ExecOutcomes, token \in TxIDs :
        last' = Respond("CardCreate", [NoArgs EXCEPT !.id = token],
                        Request("POST", <<"payment_methods">>,
                                [type |-> "CreditCard", Token |-> token]),
                        out, {201}, "CreditCard")
    /\ Frame

CardUpdate ==
    /\ ~last.panic
    /\ \E out \in ExecOutcomes, token \in TxIDs :
        last' = Respond("CardUpdate", [NoArgs EXCEPT !.id = token],
                        Request("PUT", <<"payment_methods", token>>,
                                [type |-> "CreditCard", Token |-> token]),
                        out, {200}, "CreditCard")
    /\ Frame

CardFind ==
    /\ ~last.panic
    /\ \E out \in ExecOutcomes, token \in TxIDs :
        last' = Respond("CardFind", [NoArgs EXCEPT !.id = token],
                        Request("GET", <<"payment_methods", token>>, NilBody),
                        out, {200}, "CreditCard")
    /\ Frame

\* Delete returns only an error: on 200 it returns nil without decoding.
CardDelete ==
    /\ ~last.panic
    /\ \E out \in ExecOutcomes, token \in TxIDs :
        LET req == Request("DELETE", <<"payment_methods", token>>, NilBody)
            args == [NoArgs EXCEPT !.id = token]
        IN
        last' = IF out.err
                THEN Call("CardDelete", args, <<Exec(req, out, FALSE)>>, <<>>, 0,
                          TransportErr, <<>>, FALSE)
                ELSE IF out.StatusCode = 200
                THEN Call("CardDelete", args, <<Exec(req, out, FALSE)>>, <<>>, 0,
                          NoErr, <<>>, FALSE)
                ELSE Call("CardDelete", args, <<Exec(req, out, FALSE)>>, <<>>, 0,
                          invalidResponseError(out), <<>>, FALSE)
    /\ Frame

\* ------------------------------------------------------------ the machine
IDList(n) == [i \in 1..n |-> i]

Init ==
    /\ remoteIDs \in {IDList(n) : n \in 0..MaxIDs}
    /\ remotePageSize \in (0 - 1)..MaxPageSize
    /\ query = [type |-> "SearchQuery",
                Fields |-> <<[name |-> "amount", Items |-> <<>>]>>]
    /\ results = <<>>
    /\ origin = <<>>
    /\ ccSearch = <<>>
    /\ last = Call("none", NoArgs, <<>>, <<>>, 0, NoErr, <<>>, FALSE)

Next ==
    \/ Search
    \/ SearchNext
    \/ ExpiringBetweenIDs
    \/ ExpiringBetweenPage

Spec == Init /\ [][Next]_vars

\* the single-request operations, called in any order
NextOps ==
    \/ Create
    \/ Clone
    \/ SubmitForSettlement
    \/ Void
    \/ CancelRelease
    \/ ReleaseFromEscrow
    \/ HoldInEscrow
    \/ Refund
    \/ Find
    \/ CardCreate
    \/ CardUpdate
    \/ CardFind
    \/ CardDelete

InitOps ==
    /\ Init
    /\ remoteIDs = <<>>
    /\ remotePageSize = MaxPageSize

SpecOps == InitOps /\ [][NextOps]_vars
\* ------------------------------------------------------------ properties
Min(a, b) == IF a < b THEN a ELSE b

Max(a, b) == IF a > b THEN a ELSE b

\* L[lo:hi] written out index by index
Range(L, lo, hi) == [j \in 1..(hi - lo) |-> L[lo + j]]

RECURSIVE Depth(_)
Depth(i) == IF origin[i].parent = 0 THEN 1 ELSE 1 + Depth(origin[i].parent)

RECURSIVE ChainOK(_)
ChainOK(i) == origin[i].ok /\ (origin[i].parent = 0 \/ ChainOK(origin[i].parent))

RECURSIVE ChainIDs(_)
ChainIDs(i) ==
    (IF origin[i].parent = 0 THEN <<>> ELSE ChainIDs(origin[i].parent)) \o origin[i].ids

IdsFilters(q) == {k \in 1..Len(q.Fields) : q.Fields[k].name = "ids"}

Returned == last.val # <<>>

Terminal == last.val = <<>> /\ last.res = 0 /\ last.err = NoErr /\ ~last.panic

\* C1: whenever ExpiringBetweenPage fetches page N >= 1 with pageSize > 0, the
\* request's only filter is "ids" holding IDs[(N-1)*pageSize : min(N*pageSize,
\* totalCount)] in order, and the returned result has CurrentPageNumber = N,
\* PageSize = pageSize and TotalItems = totalCount.
C1_PageSliceExact ==
    (/\ last.op = "ExpiringBetweenPage"
     /\ last.execs # <<>>
     /\ ccSearch[1].PageSize > 0
     /\ last.args.page >= 1)
    => LET N == last.args.page
           pageSize == ccSearch[1].PageSize
           IDs == ccSearch[1].IDs
           totalCount == Len(IDs)
           q == last.execs[1].req.body
       IN /\ Cardinality(IdsFilters(q)) = 1
          /\ \A k \in IdsFilters(q) :
                q.Fields[k].Items =
                    Range(IDs, (N - 1) * pageSize, Min(N * pageSize, totalCount))
          /\ Returned
          /\ last.val[1].CurrentPageNumber = N
          /\ last.val[1].PageSize = pageSize
          /\ last.val[1].TotalItems = totalCount

\* a second page cut short by the end of the ID list was fetched
C1_Witness ==
    /\ last.op = "ExpiringBetweenPage"
    /\ last.execs # <<>>
    /\ Returned
    /\ last.args.page >= 2
    /\ ccSearch[1].PageSize >= 2
    /\ last.args.page * ccSearch[1].PageSize > Len(ccSearch[1].IDs)

\* C2: a page whose start offset equals or exceeds its end offset, with
\* start = (page-1)*PageSize in ExpiringBetweenPage and CurrentPageNumber *
\* PageSize in SearchNext and end = min(start+PageSize, number of IDs), is
\* answered (nil, nil) without any request being issued.
C2_TerminalPageIsNil ==
    /\ last.op = "SearchNext"
        => LET r == results[last.args.input]
               start == r.CurrentPageNumber * r.PageSize
               end == Min(start + r.PageSize, Len(r.TotalIDs))
           IN start >= end => Terminal /\ last.execs = <<>>
    /\ last.op = "ExpiringBetweenPage"
        => LET sr == ccSearch[1]
               start == (last.args.page - 1) * sr.PageSize
               end == Min(start + sr.PageSize, Len(sr.IDs))
           IN start >= end => Terminal /\ last.execs = <<>>

\* SearchNext on the last page of a search of several pages
C2_Witness ==
    /\ last.op = "SearchNext"
    /\ Terminal
    /\ last.execs = <<>>
    /\ results[last.args.input].CurrentPageNumber >= 2
    /\ results[last.args.input].CurrentPageNumber
           * results[last.args.input].PageSize = Len(remoteIDs)

SuccessCodes(op) ==
    IF op \in {"Create", "Clone", "CardCreate"} THEN {201}
    ELSE IF op = "Refund" THEN {200, 201}
    ELSE {200}

\* C3: in every operation, a response that execute delivered without error but
\* whose status code is not the operation's success code makes the operation
\* return an invalidResponseError carrying that response and no result, and
\* a body is decoded only when its status code is a success code.
C3_UniformErrorPolicy ==
    \A k \in 1..Len(last.execs) :
        LET e == last.execs[k] IN
        /\ (~e.out.err /\ e.out.StatusCode \notin SuccessCodes(last.op))
              => last.err = invalidResponseError(e.out) /\ ~Returned
        /\ e.parsed => ~e.out.err /\ e.out.StatusCode \in SuccessCodes(last.op)

\* C4: with pageSize > 0 and all page fetches succeeding, the k-th result of
\* the chain Search, SearchNext, ... has CurrentPageNumber = k, its request
\* asked for L[(k-1)*pageSize : min(k*pageSize, len(L))], the requests of the
\* chain so far concatenate to L[0 : min(k*pageSize, len(L))], and once the
\* chain has ended the concatenation is L.
C4_PagesPartitionIDs ==
    remotePageSize > 0 =>
        LET pageSize == remotePageSize
            L == remoteIDs
        IN /\ \A i \in 1..Len(results) :
                ChainOK(i) =>
                    LET k == Depth(i) IN
                    /\ results[i].CurrentPageNumber = k
                    /\ origin[i].ids =
                           Range(L, (k - 1) * pageSize, Min(k * pageSize, Len(L)))
                    /\ ChainIDs(i) = Range(L, 0, Min(k * pageSize, Len(L)))
           /\ (last.op = "SearchNext" /\ Terminal /\ ChainOK(last.args.input))
                => ChainIDs(last.args.input) = L

\* a chain of three successful pages has ended
C4_Witness ==
    /\ remotePageSize > 0
    /\ last.op = "SearchNext"
    /\ Terminal
    /\ ChainOK(last.args.input)
    /\ Depth(last.args.input) >= 3
    /\ ChainIDs(last.args.input) = remoteIDs

\* C5: with pageSize > 0, SearchNext answers (nil, nil) exactly when its input
\* has CurrentPageNumber*pageSize >= totalCount, which is after max(1,
\* ceil(totalCount/pageSize)) pages; no chain is longer than that, and no
\* page was ever derived from a result that is past the end.
C5_PagingTerminates ==
    remotePageSize > 0 =>
        LET pageSize == remotePageSize
            totalCount == Len(remoteIDs)
            pages == Max(1, (totalCount + pageSize - 1) \div pageSize)
        IN /\ \A i \in 1..Len(results) :
                /\ Depth(i) <= pages
                /\ origin[i].parent # 0 =>
                      results[origin[i].parent].CurrentPageNumber * pageSize < totalCount
           /\ last.op = "SearchNext" =>
                LET r == results[last.args.input] IN
                /\ Terminal <=> r.CurrentPageNumber * pageSize >= totalCount
                /\ Terminal => Depth(last.args.input) = pages
                /\ ~Terminal => Returned

\* the end was reached after two pages, the second one not full
C5_Witness ==
    /\ remotePageSize >= 2
    /\ Len(remoteIDs) > remotePageSize
    /\ Len(remoteIDs) < 2 * remotePageSize
    /\ last.op = "SearchNext"
    /\ Terminal
    /\ Depth(last.args.input) = 2

IDPaths == {<<"transactions", "advanced_search_ids">>,
            <<"payment_methods", "all", "expiring_ids">>}

\* C6: a SearchNext or ExpiringBetweenPage call that returns a page issued
\* exactly one request, the page request, whether or not it failed; Search
\* issues one ID request, then at most one page request and none when the ID
\* request failed; no operation but Search and ExpiringBetweenIDs requests
\* the ID list.
C6_OneRequestPerPage ==
    /\ (last.op = "SearchNext" /\ Returned)
          => /\ Len(last.execs) = 1
             /\ last.execs[1].req.path = <<"transactions", "advanced_search">>
    /\ (last.op = "ExpiringBetweenPage" /\ Returned)
          => /\ Len(last.execs) = 1
             /\ last.execs[1].req.path = <<"payment_methods", "all", "expiring">>
    /\ last.op = "Search"
          => /\ Len(last.execs) \in {1, 2}
             /\ last.execs[1].req.path = <<"transactions", "advanced_search_ids">>
             /\ Len(last.execs) = 2
                   => last.execs[2].req.path = <<"transactions", "advanced_search">>
             /\ (last.execs[1].out.err \/ ~last.execs[1].out.parses)
                   => Len(last.execs) = 1
    /\ last.op \notin {"Search", "ExpiringBetweenIDs"}
          => \A k \in 1..Len(last.execs) : last.execs[k].req.path \notin IDPaths

\* the same page is fetched a second time, and the request fails
C6_Witness ==
    /\ last.op = "SearchNext"
    /\ Returned
    /\ last.execs[1].out.err
    /\ \E j \in 1..Len(results) :
          /\ j # last.res
          /\ origin[j].parent = last.args.input
          /\ origin[j].ids = origin[last.res].ids

\* C7: Search, SearchNext and ExpiringBetweenPage never return a result
\* together with an error.
C7_NoResultWithError ==
    (last.op \in {"Search", "SearchNext", "ExpiringBetweenPage"}
        /\ last.err.kind # "nil") => ~Returned

\* C8: SubmitForSettlement and Refund issue exactly one request, PUT
\* transactions/{id}/submit_for_settlement and POST transactions/{id}/refund,
\* with no body when no amount is given and otherwise with a request whose
\* Amount is the first amount and whose other fields are empty.
C8_AmountRequest ==
    last.op \in {"SubmitForSettlement", "Refund"} =>
        /\ Len(last.execs) = 1
        /\ last.execs[1].req.method =
              (IF last.op = "Refund" THEN "POST" ELSE "PUT")
        /\ last.execs[1].req.path =
              <<"transactions", last.args.id,
                IF last.op = "Refund" THEN "refund" ELSE "submit_for_settlement">>
        /\ last.args.amount = <<>> => last.execs[1].req.body = [type |-> "nil"]
        /\ last.args.amount # <<>> =>
              last.execs[1].req.body =
                  [type |-> "TransactionRequest",
                   Amount |-> <<last.args.amount[1]>>, Other |-> ""]

\* a refund given two different amounts
C8_Witness ==
    /\ last.op = "Refund"
    /\ Len(last.args.amount) = 2
    /\ last.args.amount[1] # last.args.amount[2]
    /\ last.execs[1].req.body.Amount = <<last.args.amount[1]>>

C10_SliceInRange ==
    /\ ~last.panic
    /\ \A k \in 1..Len(last.slice) :
          /\ 0 <= last.slice[k].lo
          /\ last.slice[k].lo <= last.slice[k].hi
          /\ last.slice[k].hi <= last.slice[k].len
====
